---- MODULE Spec2Model ----
(***************************************************************************)
(* State-machine model of twitch_chat_collector: the credential manager    *)
(* (token_manager.py), the IRC client handshake (twitch_irc.py), the       *)
(* collector's connect/retry loop and event handlers (collector.py) and    *)
(* the scheduler tick (scheduler.py) as the daemon runs them (daemon.py).  *)
(*                                                                         *)
(* Tokens are numbered by generation: access token g and refresh token g   *)
(* are the pair issued by the g-th grant.  0 stands for None / empty.      *)
(* asyncio tasks interleave only at awaits, so every action below runs     *)
(* from one await to the next.                                             *)
(***************************************************************************)
EXTENDS Integers, Sequences, FiniteSets, TLC

\* ---------------------------------------------------------------- bounds
NCallers == 2          \* concurrent callers of the token manager (SpecTM)
MaxGen   == 2          \* newest token generation the platform issues
MaxTicks == 1          \* scheduler ticks in one run of the daemon
MaxPolls == 2          \* scheduler ticks when the scheduler runs alone
MaxCalls == 3          \* calls of the DatabaseManager's save methods
MaxMsg   == 2          \* distinct message ids
MaxEvents == 2         \* chat events delivered to the listen loop
MaxName  == 2          \* characters of a channel name given to join_channel
MaxLine  == 1          \* words of the payload of a received PING line
MaxWire  == 4          \* lines on the socket of a directly driven client
MaxTag   == 2          \* characters of a tag value
MaxParsed == 2         \* lines given to the handlers of a directly driven client

CallerNames == <<"c1", "c2", "c3", "c4">>
Callers == {CallerNames[i] : i \in 1..NCallers}
Tasks == {"collector", "scheduler"} \cup Callers
Managers == {"tmC", "tmS"}

\* scheduler.py:37 builds its own TokenManager; collector.py:50 builds
\* another one.  Direct callers (SpecTM) share the collector's instance.
tmOf(t) == IF t = "scheduler" THEN "tmS" ELSE "tmC"

VARIABLES
  Config,      \* class attributes of config.Config, read once at import
  env,         \* the .env file: persisted TWITCH_ACCESS_TOKEN / _REFRESH_TOKEN
  srv,         \* the platform: valid refresh token, accepted access tokens
  lock,        \* TokenManager._refresh_lock per instance: holder or "free"
  call,        \* per task: the token-manager call it is inside
  posts,       \* number of refresh POSTs sent so far (all instances)
  coll,        \* TwitchChatCollector.collect_from_channels: position, fields
  irc,         \* the TwitchIRCClient the collector currently holds
  socks,       \* websockets opened and not yet closed by the program
  connLog,     \* one entry per irc_client.connect() call of this run
  channel_streams, \* TwitchChatCollector.channel_streams (0 = None)
  saved,       \* events handed to DatabaseManager.save_*: kind, channel, id
  nEvents,     \* events delivered to the handlers so far
  dropped,     \* events a handler skipped: kind, channel, lookups made
  wire,        \* lines on the current websocket: direction and words
  plat,        \* the platform: live stream id per channel (0 = not live)
  db,          \* the database: rows of chat_messages, message_deleted_events
  events,      \* event dicts a directly driven client handed to its callbacks
  sched        \* StreamScheduler.run: position, ticks, running, live_users

tmVars == <<Config, env, srv, lock, call, posts>>
collVars == <<coll, irc, socks, connLog, channel_streams, saved, nEvents,
              dropped, wire, plat, db, events>>

\* ------------------------------------------------------- token manager
\* For a call made by a directly driven caller (direct) the record keeps
\* what happened inside it: outcome is the raw answer of the validation
\* endpoint, rexc how its refresh_access_token ended ("unset": not ended,
\* "none": it returned) and posted the refresh POSTs it sent.
IdleCall == [op |-> "none", pc |-> "idle", access |-> 0, refresh |-> 0,
             outcome |-> "unset", val |-> "unset", tokens |-> 0, res |-> 0,
             exc |-> "none", rexc |-> "unset", posted |-> 0,
             direct |-> FALSE]
Note(c, f, v) == IF c.direct THEN [c EXCEPT ![f] = v] ELSE c

\* token_manager.py:66-152.  Every outcome except a 200 with chat:read
\* returns None: 401 (l.134), another status (l.139), a network error
\* (l.146), and the missing-scope ValueError of l.118, which is raised
\* inside the try and caught by the except Exception of l.150.
validate_token(outcome) ==
  CASE outcome = "ok_long"  -> "long"
    [] outcome = "ok_short" -> "short"
    [] OTHER                -> "none"

\* what the validation endpoint can answer for an access token
ValidateOutcomes(a) ==
  IF a = 0 THEN {"empty"}
  ELSE IF a \in srv.accessOK
       THEN {"ok_long", "ok_short", "no_scope", "status_other", "neterr"}
       ELSE {"401", "status_other", "neterr"}

\* how a finished refresh_access_token ends the enclosing call
\* (token_manager.py:281-302): get_valid_access_token swallows the failure
\* of a proactive refresh (l.297-302) and returns the current token; the
\* refresh after a failed validation is outside any try (l.284).
FinishRefresh_swallow(c, exc, tokens) ==
  LET n == Note(c, "rexc", exc) IN
  IF exc = "none"
  THEN [n EXCEPT !.pc = "ret", !.tokens = tokens, !.res = tokens]
  ELSE IF c.op = "get_valid_access_token"
       THEN [n EXCEPT !.pc = "ret", !.res = c.access]
       ELSE [n EXCEPT !.pc = "raised", !.exc = exc]
FinishRefresh(c, exc, tokens) ==
  LET n == Note(c, "rexc", exc) IN
  IF exc = "none"
  THEN [n EXCEPT !.pc = "ret", !.tokens = tokens, !.res = tokens]
  ELSE IF c.op = "get_valid_access_token" /\ c.val = "short"
       THEN [n EXCEPT !.pc = "ret", !.res = c.access]
       ELSE [n EXCEPT !.pc = "raised", !.exc = exc]

\* token_manager.py:182-210: refresh_access_token up to the POST.  An empty
\* token raises before the lock (l.182-186), which ends the call as any
\* other failure of the refresh does; a free lock is taken without yielding
\* and the POST is sent; a held lock makes the caller wait.
EnterRefresh_raise_empty(c, m) ==
  IF c.refresh = 0
  THEN [Note(c, "rexc", "ValueError_empty")
          EXCEPT !.pc = "raised", !.exc = "ValueError_empty"]
  ELSE IF lock[m] = "free"
       THEN [c EXCEPT !.pc = "post"]
       ELSE [c EXCEPT !.pc = "lock"]
EnterRefresh(c, m) ==
  IF c.refresh = 0
  THEN FinishRefresh(c, "ValueError_empty", 0)
  ELSE IF lock[m] = "free"
       THEN [c EXCEPT !.pc = "post"]
       ELSE [c EXCEPT !.pc = "lock"]

StartCall(t, op, a, r) ==
  LET c0 == [IdleCall EXCEPT !.op = op, !.access = a, !.refresh = r] IN
  IF op = "refresh_access_token"
  THEN EnterRefresh(c0, tmOf(t))
  ELSE [c0 EXCEPT !.pc = "validate"]

\* bookkeeping shared by every step that may send the POST
Sent(t, c) == c.pc = "post" /\ call[t].pc # "post"
AfterEnter(t, c) ==
  /\ call' = [call EXCEPT ![t] = IF Sent(t, c)
                                 THEN Note(c, "posted", c.posted + 1) ELSE c]
  /\ lock' = IF Sent(t, c) THEN [lock EXCEPT ![tmOf(t)] = t] ELSE lock
  /\ posts' = IF Sent(t, c) THEN posts + 1 ELSE posts

\* token_manager.py:99-152 then 279-306: the validation answer arrives
validate_response(t) ==
  /\ call[t].pc = "validate"
  /\ \E o \in ValidateOutcomes(call[t].access) :
       LET v == validate_token(o)
           c == [Note(call[t], "outcome", o) EXCEPT !.val = v] IN
       IF c.op = "validate_token"
       THEN AfterEnter(t, [c EXCEPT !.pc = "ret"])
       ELSE IF v = "long"
            THEN AfterEnter(t, [c EXCEPT !.pc = "ret", !.res = c.access])
            ELSE AfterEnter(t, EnterRefresh(c, tmOf(t)))
  /\ UNCHANGED <<Config, env, srv>>

\* token_manager.py:189: a waiter gets the lock once it is released
lock_acquire(t) ==
  /\ call[t].pc = "lock"
  /\ lock[tmOf(t)] = "free"
  /\ AfterEnter(t, [call[t] EXCEPT !.pc = "post"])
  /\ UNCHANGED <<Config, env, srv>>

\* token_manager.py:212-249: the answer to the refresh POST
refresh_response(t) ==
  /\ call[t].pc = "post"
  /\ \/ \* 200: the platform rotates the pair (l.212-218)
        /\ call[t].refresh = srv.refresh
        /\ srv.refresh < MaxGen
        /\ srv' = [refresh |-> srv.refresh + 1,
                   accessOK |-> srv.accessOK \cup {srv.refresh + 1}]
        /\ call' = [call EXCEPT ![t] = [@ EXCEPT !.pc = "set_access",
                                                 !.tokens = srv.refresh + 1]]
        /\ UNCHANGED lock
     \/ \* 400/401: the refresh token is not the valid one (l.227-239)
        /\ call[t].refresh # srv.refresh
        /\ call' = [call EXCEPT ![t] =
                      FinishRefresh(@, "ValueError_invalid", 0)]
        /\ lock' = [lock EXCEPT ![tmOf(t)] = "free"]
        /\ UNCHANGED srv
     \/ \* another status (l.241) or a network error (l.247)
        /\ \E e \in {"ValueError_status", "ValueError_network"} :
             call' = [call EXCEPT ![t] = FinishRefresh(@, e, 0)]
        /\ lock' = [lock EXCEPT ![tmOf(t)] = "free"]
        /\ UNCHANGED srv
  /\ UNCHANGED <<Config, env, posts>>

\* token_manager.py:336: set_key(TWITCH_ACCESS_TOKEN) rewrites the file,
\* or fails (l.348-350) and the error leaves refresh_access_token (l.251)
set_key_access(t) ==
  /\ call[t].pc = "set_access"
  /\ \/ /\ env' = [env EXCEPT !.access = call[t].tokens]
        /\ call' = [call EXCEPT ![t] = [@ EXCEPT !.pc = "set_refresh"]]
        /\ UNCHANGED lock
     \/ /\ call' = [call EXCEPT ![t] = FinishRefresh(@, "EnvError", 0)]
        /\ lock' = [lock EXCEPT ![tmOf(t)] = "free"]
        /\ UNCHANGED env
  /\ UNCHANGED <<Config, srv, posts>>

\* token_manager.py:337-342: set_key(TWITCH_REFRESH_TOKEN), then
\* load_dotenv(override=True) refreshes os.environ only: the attributes of
\* Config keep the values read at import.
set_key_refresh(t) ==
  /\ call[t].pc = "set_refresh"
  /\ \/ /\ env' = [env EXCEPT !.refresh = call[t].tokens]
        /\ call' = [call EXCEPT ![t] = FinishRefresh(@, "none", @.tokens)]
     \/ /\ call' = [call EXCEPT ![t] = FinishRefresh(@, "EnvError", 0)]
        /\ UNCHANGED env
  /\ lock' = [lock EXCEPT ![tmOf(t)] = "free"]
  /\ UNCHANGED <<Config, srv, posts>>

\* an access token stops being accepted by the platform (it expires)
ExpireAccess ==
  /\ \E g \in srv.accessOK : srv' = [srv EXCEPT !.accessOK = @ \ {g}]
  /\ UNCHANGED <<Config, env, lock, call, posts>>

vars == <<Config, env, srv, lock, call, posts, coll, irc, socks,
          connLog, channel_streams, saved, nEvents, dropped, wire, plat, db,
          events, sched>>

\* ------------------------------------------------------------ collector
max_retries == 3       \* collector.py:123
Channels == {"alice", "bob"}
MaxSid == 2            \* stream ids the polling API can report

\* collector.py:113-119, 140-146 always pass token_manager=self.token_manager
NewClient(tok) == [access_token |-> tok, token_manager |-> TRUE,
                   is_connected |-> FALSE, websocket |-> 0,
                   joined_channels |-> {}]
Finished(t) == call[t].pc \in {"ret", "raised"}
Last(log) == log[Len(log)]
SetLast(log, f, v) == [log EXCEPT ![Len(log)] = [@ EXCEPT ![f] = v]]

\* collector.py:166-169 with twitch_irc.py:407-412: the finally block closes
\* the websocket of the client the collector holds now.
Close(c) == IF c.websocket # 0 THEN [c EXCEPT !.is_connected = FALSE] ELSE c
EndRunOn(pc, exc, open) ==
  /\ coll' = [coll EXCEPT !.pc = pc, !.exc = exc, !.response = <<>>]
  /\ socks' = open \ {irc.websocket}
EndRun(pc, exc) == EndRunOn(pc, exc, socks)

\* collector.py:129-154: what the retry loop does with an error of
\* connect().  A ConnectionError whose text asks for a reconnect is retried
\* through the refresh path, any other ConnectionError is re-raised at once
\* (l.148), anything else is retried until the last attempt (l.150-154).
RetryDecision_fallthrough(kind, attempt) ==
  IF kind = "reconnect" /\ attempt < max_retries - 1 THEN "sleep_reconnect"
  ELSE IF kind \in {"reconnect", "ConnectionError"} THEN "end"
  ELSE IF attempt < max_retries - 1 THEN "sleep_retry"
  ELSE "join"
RetryDecision(kind, attempt) ==
  IF kind = "reconnect" /\ attempt < max_retries - 1 THEN "sleep_reconnect"
  ELSE IF kind \in {"reconnect", "ConnectionError"} THEN "end"
  ELSE IF attempt < max_retries - 1 THEN "sleep_retry"
  ELSE "end"

\* twitch_irc.py:147-152: what connect() raises for an error that ended the
\* attempt.  The handshake catches every ValueError of refresh_access_token
\* (refused token l.232, other status l.242, network error l.249, empty
\* token l.183) and raises the ValueError that asks for re-authorization in
\* its place; any other error passes as it is.
RefreshValueErrors == {"ValueError_empty", "ValueError_invalid",
                       "ValueError_status", "ValueError_network"}
Raised(kind) ==
  IF kind \in RefreshValueErrors THEN "ValueError_reauth" ELSE kind

\* twitch_irc.py:85-88 then collector.py:129-165: connect() failed; open
\* are the websockets still open at that point
ConnectFailedOn(kind, client, newTok, open) ==
  LET d == RetryDecision(kind, coll.attempt) IN
  /\ irc' = [client EXCEPT !.is_connected = FALSE]
  /\ connLog' = SetLast(SetLast(SetLast(connLog, "out", kind),
                                "newTok", newTok),
                        "raised", Raised(kind))
  /\ IF d = "end"
     THEN EndRunOn("done", "none", open)
     ELSE /\ coll' = [coll EXCEPT !.pc = d, !.response = <<>>]
          /\ socks' = open
ConnectFailed(kind, client, newTok) ==
  ConnectFailedOn(kind, client, newTok, socks)

\* collector.py:105-119: the start-up check ended well (how: the token
\* validated, or a refresh gave a new one); _get_channel_info (synchronous,
\* outside the try) and the first client
AfterStartup(how, tok) ==
  \E r \in {"ok", "empty", "RequestException"} :
    /\ coll' = [coll EXCEPT !.access_token = tok,
                            !.startup = how,
                            !.pc = CASE r = "ok" -> "connect"
                                     [] r = "empty" -> "done"
                                     [] OTHER -> "raised",
                            !.exc = IF r = "RequestException" THEN r ELSE "none"]
    /\ irc' = IF r = "ok" THEN NewClient(tok) ELSE irc

\* collector.py:101-103: an error of the start-up check is logged and
\* raised again, out of collect_from_channels
StartupFailed_continue(exc) == AfterStartup("failed", coll.access_token)
StartupFailed(exc) ==
  /\ coll' = [coll EXCEPT !.pc = "raised", !.exc = exc, !.startup = "failed"]
  /\ UNCHANGED irc

\* collector.py:84-87: the start-up validation is sent
collect_from_channels ==
  /\ coll.pc = "init"
  /\ coll' = [coll EXCEPT !.pc = "startup"]
  /\ AfterEnter("collector",
                StartCall("collector", "validate_token", coll.access_token, 0))
  /\ UNCHANGED <<Config, env, srv, irc, socks, connLog, channel_streams,
                 saved, nEvents, db, events, dropped, wire, plat, sched>>

\* collector.py:88-103: valid, or invalid and a refresh with
\* Config.TWITCH_REFRESH_TOKEN, an attribute config.py does not declare
startup_validated ==
  /\ coll.pc = "startup"
  /\ call["collector"].pc = "ret"
  /\ IF call["collector"].val # "none"
     THEN /\ AfterStartup("validated", coll.access_token)
          /\ AfterEnter("collector", IdleCall)
     ELSE IF Config.declares_refresh
          THEN /\ coll' = [coll EXCEPT !.pc = "startup_refresh"]
               /\ AfterEnter("collector",
                    StartCall("collector", "refresh_access_token", 0,
                              Config.TWITCH_REFRESH_TOKEN))
               /\ UNCHANGED irc
          ELSE /\ StartupFailed("AttributeError")
               /\ AfterEnter("collector", IdleCall)
  /\ UNCHANGED <<Config, env, srv, socks, connLog, channel_streams, saved,
                 nEvents, db, events, dropped, wire, plat, sched>>

\* collector.py:96-103: the start-up refresh ended
startup_refreshed ==
  /\ coll.pc = "startup_refresh"
  /\ Finished("collector")
  /\ IF call["collector"].pc = "ret"
     THEN AfterStartup("refreshed", call["collector"].tokens)
     ELSE StartupFailed(call["collector"].exc)
  /\ AfterEnter("collector", IdleCall)
  /\ UNCHANGED <<Config, env, srv, socks, connLog, channel_streams, saved,
                 nEvents, db, events, dropped, wire, plat, sched>>

\* collector.py:124-127, twitch_irc.py:74: websockets.connect is awaited
connect ==
  /\ coll.pc = "connect"
  /\ coll' = [coll EXCEPT !.pc = "ws_connect"]
  /\ connLog' = Append(connLog, [tok |-> 0, out |-> "pending", newTok |-> 0, raised |-> "none"])
  /\ UNCHANGED <<tmVars, irc, socks, channel_streams, saved, nEvents, db, events, dropped, wire, plat, sched>>

\* a line the client sent on the websocket, a line it received, a handler
\* of the client it ran, a join_channel call made on it; a line is its
\* sequence of words
Tx(line) == [dir |-> "tx", line |-> line]
Rx(line) == [dir |-> "rx", line |-> line]
Ran(handler) == [dir |-> "run", line |-> <<handler>>]
Called(channel) == [dir |-> "call", line |-> channel]

\* twitch_irc.py:112-117: the three lines _authenticate sends, in order
AuthLines_nick_first(tok) ==
  << <<"NICK", "justinfan12345">>,
     <<"CAP", "REQ", ":twitch.tv/tags", "twitch.tv/commands">>,
     <<"PASS", "oauth:" \o ToString(tok)>> >>
AuthLines(tok) ==
  << <<"CAP", "REQ", ":twitch.tv/tags", "twitch.tv/commands">>,
     <<"PASS", "oauth:" \o ToString(tok)>>,
     <<"NICK", "justinfan12345">> >>

\* twitch_irc.py:98-111: the pre-check is over, the sends come next
SendAuth(client) ==
  /\ irc' = client
  /\ coll' = [coll EXCEPT !.pc = "send_auth"]
  /\ UNCHANGED connLog

\* twitch_irc.py:112-119: CAP REQ, PASS oauth:<token>, NICK are sent one
\* awaited send after the other; a send on a connection the server closed
\* raises ConnectionClosed, an error of connect() the retry loop handles as
\* any other exception.
_authenticate ==
  /\ coll.pc = "send_auth"
  /\ \E n \in 0..3 :
       LET lines == AuthLines(irc.access_token) IN
       /\ wire' = wire \o [i \in 1..n |-> Tx(lines[i])]
       /\ IF n = 3
          THEN /\ connLog' = SetLast(connLog, "tok", irc.access_token)
               /\ coll' = [coll EXCEPT !.pc = "handshake"]
               /\ UNCHANGED <<irc, socks>>
          ELSE ConnectFailedOn("ConnectionClosed", irc, 0,
                               socks \ {irc.websocket})
  /\ UNCHANGED <<tmVars, channel_streams, saved, nEvents, db, events, dropped, plat, sched>>

\* twitch_irc.py:74-109: the websocket opens (or not) and _authenticate
\* starts with the pre-check, whose arguments are read from Config
ws_connected ==
  /\ coll.pc = "ws_connect"
  /\ \/ LET id == Len(connLog)
              client == [irc EXCEPT !.websocket = id, !.is_connected = TRUE] IN
          /\ socks' = socks \cup {id}
          /\ wire' = <<>>
          /\ IF irc.token_manager /\ Config.declares_refresh
             THEN /\ irc' = client
                  /\ coll' = [coll EXCEPT !.pc = "precheck"]
                  /\ AfterEnter("collector",
                       StartCall("collector", "get_valid_access_token",
                                 Config.TWITCH_ACCESS_TOKEN,
                                 Config.TWITCH_REFRESH_TOKEN))
                  /\ UNCHANGED connLog
             ELSE /\ SendAuth(client)
                  /\ UNCHANGED <<lock, call, posts>>
     \/ \E kind \in {"ConnectionError", "OSError"} :
          /\ ConnectFailed(kind, irc, 0)
          /\ UNCHANGED <<lock, call, posts, wire>>
  /\ UNCHANGED <<Config, env, srv, channel_streams, saved, nEvents, db, events, dropped,
                 plat, sched>>

\* twitch_irc.py:103-119: the pre-check ended; its error is only logged
precheck_done ==
  /\ coll.pc = "precheck"
  /\ Finished("collector")
  /\ SendAuth(IF call["collector"].pc = "ret"
              THEN [irc EXCEPT !.access_token = call["collector"].res]
              ELSE irc)
  /\ AfterEnter("collector", IdleCall)
  /\ UNCHANGED <<Config, env, srv, socks, channel_streams, saved, nEvents, db, events, dropped, wire, plat, sched>>

\* twitch_irc.py:122-160: one awaited recv of the handshake loop; response
\* is the line it returned, as its words.  The lines the server sends
\* while a client authenticates: the 001 welcome to a token it accepts,
\* the failure notice to one it does not, and before either the answer to
\* the capability request or another notice.
WelcomeLine == <<":tmi.twitch.tv", "001", "justinfan12345", "Welcome">>
FailLine ==
  <<":tmi.twitch.tv", "NOTICE", "*", "Login authentication failed">>
OtherLines == {<<":tmi.twitch.tv", "CAP", "*", "ACK">>,
               <<":tmi.twitch.tv", "NOTICE", "*", "other">>}
ServerLines ==
  OtherLines \cup (IF irc.access_token \in srv.accessOK
                   THEN {WelcomeLine} ELSE {FailLine})
Mentions(response, word) == \E i \in 1..Len(response) : response[i] = word
IsFailureNotice(response) ==
  Mentions(response, "NOTICE")
    /\ Mentions(response, "Login authentication failed")

\* twitch_irc.py:127-132: what the loop makes of a line, in the order of
\* its tests: the welcome marker first, then the failure notice.
handshake_response_any(response) ==
  IF Len(response) > 0 THEN "welcome" ELSE "other"
handshake_response(response) ==
  IF Mentions(response, "001") \/ Mentions(response, "Welcome")
  THEN "welcome"
  ELSE IF IsFailureNotice(response) THEN "auth_failed" ELSE "other"

\* The welcome marker ends the loop (l.127), the authentication-failure
\* notice starts the refresh (l.132), any other line takes the loop back
\* to the next recv (l.122), and a recv that gets no line for 10 s
\* (l.123) or a closed connection is an error of connect().
handshake_recv ==
  /\ coll.pc = "handshake"
  /\ \/ \E response \in ServerLines :
          CASE handshake_response(response) = "welcome" ->
                 /\ connLog' = SetLast(connLog, "out", "welcome")
                 /\ coll' = [coll EXCEPT !.pc = "join",
                                         !.response = response]
                 /\ UNCHANGED <<irc, socks, lock, call, posts>>
            [] handshake_response(response) = "auth_failed" ->
                 IF irc.token_manager /\ Config.declares_refresh
                 THEN /\ coll' = [coll EXCEPT !.pc = "auth_refresh",
                                              !.response = response]
                      /\ AfterEnter("collector",
                           StartCall("collector", "refresh_access_token", 0,
                                     Config.TWITCH_REFRESH_TOKEN))
                      /\ UNCHANGED <<irc, socks, connLog>>
                 ELSE /\ ConnectFailed(IF irc.token_manager
                                       THEN "AttributeError"
                                       ELSE "ValueError_no_manager", irc, 0)
                      /\ UNCHANGED <<lock, call, posts>>
            [] OTHER ->
                 /\ coll' = [coll EXCEPT !.response = response]
                 /\ UNCHANGED <<irc, socks, connLog, lock, call, posts>>
     \/ /\ ConnectFailed("TimeoutError", irc, 0)
        /\ UNCHANGED <<lock, call, posts>>
  /\ UNCHANGED <<Config, env, srv, channel_streams, saved, nEvents, db, events, dropped, wire, plat, sched>>

\* twitch_irc.py:136-152: the refresh after the failure notice ended.
\* Success raises ConnectionError (reconnect required); every ValueError of
\* the refresh is re-raised as the fatal ValueError; other errors pass.
AuthFailureKind(c) == IF c.pc = "ret" THEN "reconnect" ELSE c.exc

auth_refreshed ==
  /\ coll.pc = "auth_refresh"
  /\ Finished("collector")
  /\ LET c == call["collector"]
         client == IF c.pc = "ret" THEN [irc EXCEPT !.access_token = c.tokens]
                   ELSE irc IN
     ConnectFailed(AuthFailureKind(c), client, c.tokens)
  /\ AfterEnter("collector", IdleCall)
  /\ UNCHANGED <<Config, env, srv, channel_streams, saved, nEvents, db, events, dropped, wire, plat, sched>>


\* collector.py:150-153: asyncio.sleep(2) ends, the loop takes the next attempt
sleep_retry ==
  /\ coll.pc = "sleep_retry"
  /\ coll' = [coll EXCEPT !.pc = "connect", !.attempt = @ + 1]
  /\ UNCHANGED <<tmVars, irc, socks, connLog, channel_streams, saved, nEvents, db, events, dropped, wire,
                 plat, sched>>

\* collector.py:133-138: after the sleep the orchestrator asks for a token,
\* again with the values Config read at import
sleep_reconnect ==
  /\ coll.pc = "sleep_reconnect"
  /\ coll' = [coll EXCEPT !.pc = "reconnect_token"]
  /\ AfterEnter("collector",
       StartCall("collector", "get_valid_access_token",
                 Config.TWITCH_ACCESS_TOKEN, Config.TWITCH_REFRESH_TOKEN))
  /\ UNCHANGED <<Config, env, srv, irc, socks, connLog, channel_streams, saved,
                 nEvents, db, events, dropped, wire, plat, sched>>

\* collector.py:135-147: with a token the client is replaced (the old
\* websocket is not closed) and the loop continues; an error of
\* get_valid_access_token leaves the loop through the outer except (l.164)
reconnect_token ==
  /\ coll.pc = "reconnect_token"
  /\ Finished("collector")
  /\ IF call["collector"].pc = "ret"
     THEN /\ coll' = [coll EXCEPT !.pc = "connect", !.attempt = @ + 1,
                                  !.access_token = call["collector"].res]
          /\ irc' = NewClient(call["collector"].res)
          /\ UNCHANGED socks
     ELSE /\ EndRun("done", "none")
          /\ irc' = Close(irc)
  /\ AfterEnter("collector", IdleCall)
  /\ UNCHANGED <<Config, env, srv, connLog, channel_streams, saved, nEvents, db, events, dropped, wire,
                 plat, sched>>

\* twitch_irc.py:179-183: a leading '#' is added when missing, then the
\* name is lower-cased.  A name is its sequence of characters; a configured
\* login is one lower-case unit.
Lower(c) == IF c = "A" THEN "a" ELSE c
Normalise(channel) ==
  LET n == IF Len(channel) > 0 /\ channel[1] = "#" THEN channel
           ELSE <<"#">> \o channel
  IN [i \in 1..Len(n) |-> Lower(n[i])]

\* twitch_irc.py:172-191 join_channel on the pair (joined_channels, lines
\* sent): a name already joined returns before the send
join_channel_nocheck(st, channel) ==
  LET channel_lower == Normalise(channel) IN
  [joined |-> st.joined \cup {channel_lower},
   wire |-> Append(st.wire, Tx(<<"JOIN">> \o channel_lower))]
join_channel(st, channel) ==
  LET channel_lower == Normalise(channel) IN
  IF channel_lower \in st.joined THEN st
  ELSE [joined |-> st.joined \cup {channel_lower},
        wire |-> Append(st.wire, Tx(<<"JOIN">> \o channel_lower))]

\* twitch_irc.py:162-170 join_channels: one join_channel per list entry
RECURSIVE join_channels(_, _)
join_channels(st, channels) ==
  IF channels = <<>> THEN st
  ELSE join_channels(join_channel(st, Head(channels)), Tail(channels))

\* collector.py:208-253: per channel the live stream id is recorded (None
\* when not live); a channel whose lookup or save fails is skipped (l.243).
\* Then JOIN is sent for the channels that were not skipped, in the order
\* of channel_map.
StreamIds == 0..MaxSid
ChannelOrder == <<"alice", "bob">>
join_all_channels ==
  /\ coll.pc = "join"
  /\ \E ok \in SUBSET Channels :
       LET channel_logins == SelectSeq(ChannelOrder, LAMBDA c : c \in ok)
           names == [i \in 1..Len(channel_logins) |-> <<channel_logins[i]>>]
           st == join_channels([joined |-> irc.joined_channels, wire |-> wire],
                               names)
       IN
       /\ channel_streams' = [c \in Channels |->
                                IF c \in ok THEN plat[c] ELSE channel_streams[c]]
       /\ \/ /\ coll' = [coll EXCEPT !.pc = "listen"]
             /\ irc' = [irc EXCEPT !.joined_channels = st.joined]
             /\ wire' = st.wire
             /\ UNCHANGED socks
          \/ /\ EndRun("done", "none")
             /\ irc' = Close(irc)
             /\ UNCHANGED wire
  /\ UNCHANGED <<tmVars, connLog, saved, nEvents, db, events, dropped, plat, sched>>

\* the truth test "if stream_id:" of collector.py:287, 293, 324, 353, 384
Resolved_always(stream_id) == TRUE
Resolved(stream_id) == stream_id # 0

\* An event a handler decided on: the stream id it attached (0 when it was
\* skipped), the on-demand lookups it made and what the lookup reported (-1:
\* none made or it raised), and what the platform had reported for the
\* channel to the scheduler's last tick (-1 before the first tick and when
\* the tick's get_streams calls raised).
Event(kind, ch, stream_id, lookups, rep) ==
  [kind |-> kind, ch |-> ch, sid |-> stream_id, lookups |-> lookups,
   rep |-> rep,
   seen |-> IF sched.fetched THEN sched.streams_map[ch] ELSE -1]

\* an event handed to DatabaseManager.save_* (collector.py:304, 334, 364, 394)
Save(kind, ch, stream_id, lookups, rep) ==
  saved \cup {Event(kind, ch, stream_id, lookups, rep)}
\* an event skipped with a warning (collector.py:297, 328, 358, 388) or, when
\* the lookup raised, with the error of l.312
Drop(kind, ch, lookups, rep) == dropped \cup {Event(kind, ch, 0, lookups, rep)}

\* collector.py:255-277 update_stream_status: live gives the reported id,
\* not live resets a known id to None
update_stream_status_end_only(cs, ch, reported, live) ==
  IF live THEN cs
  ELSE IF cs[ch] # 0 THEN [cs EXCEPT ![ch] = 0] ELSE cs
update_stream_status(cs, ch, reported, live) ==
  IF live THEN [cs EXCEPT ![ch] = reported]
  ELSE IF cs[ch] # 0 THEN [cs EXCEPT ![ch] = 0] ELSE cs

\* collector.py:279-314 _handle_message: known id, else one synchronous
\* lookup of the platform (twitch_client.get_streams, which can raise), else
\* the message is skipped
_handle_message(ch) ==
  /\ coll.pc = "listen"
  /\ nEvents < MaxEvents
  /\ nEvents' = nEvents + 1
  /\ IF Resolved(channel_streams[ch])
     THEN /\ saved' = Save("message", ch, channel_streams[ch], 0, -1)
          /\ UNCHANGED <<channel_streams, dropped>>
     ELSE \/ LET cs == update_stream_status(channel_streams, ch, plat[ch],
                                            plat[ch] # 0) IN
             /\ channel_streams' = cs
             /\ IF Resolved(cs[ch])
                THEN /\ saved' = Save("message", ch, cs[ch], 1, plat[ch])
                     /\ UNCHANGED dropped
                ELSE /\ dropped' = Drop("message", ch, 1, plat[ch])
                     /\ UNCHANGED saved
          \/ /\ dropped' = Drop("message", ch, 1, -1)
             /\ UNCHANGED <<channel_streams, saved>>
  /\ UNCHANGED <<tmVars, db, events, coll, irc, socks, connLog, wire, plat, sched>>

\* collector.py:316-403 _handle_delete, _handle_ban, _handle_unban: known
\* id or skip.  _handle_unban is defined on the collector but not passed to
\* TwitchIRCClient (collector.py:113-119); it is run here as a caller of
\* the collector object would run it.
HandleKnownOnly(kind, ch) ==
  /\ coll.pc = "listen"
  /\ nEvents < MaxEvents
  /\ nEvents' = nEvents + 1
  /\ IF Resolved(channel_streams[ch])
     THEN /\ saved' = Save(kind, ch, channel_streams[ch], 0, -1)
          /\ UNCHANGED dropped
     ELSE /\ dropped' = Drop(kind, ch, 0, -1)
          /\ UNCHANGED saved
  /\ UNCHANGED <<tmVars, db, events, coll, irc, socks, connLog, channel_streams, wire,
                 plat, sched>>

_handle_delete(ch) == HandleKnownOnly("delete", ch)
_handle_ban(ch) == HandleKnownOnly("ban", ch)
_handle_unban(ch) == HandleKnownOnly("unban", ch)

\* the platform: a channel goes live with some stream id, or its stream ends
stream_changes(ch) ==
  /\ \E id \in StreamIds :
       /\ plat[ch] # id
       /\ plat' = [plat EXCEPT ![ch] = id]
  /\ UNCHANGED <<tmVars, coll, irc, socks, connLog, channel_streams, saved,
                 nEvents, db, events, dropped, wire, sched>>

\* twitch_irc.py:200-211 with collector.py:160-169: listen returns
\* (connection closed) or raises; both end the run through the finally
listen_ends ==
  /\ coll.pc = "listen"
  /\ EndRun("done", "none")
  /\ irc' = Close(irc)
  /\ UNCHANGED <<tmVars, connLog, channel_streams, saved, nEvents, db, events, dropped, wire, plat, sched>>

\* -------------------------------------------- the client's listen loop
\* str.startswith and str.replace on a line given as its words
startswith(line, word) == Len(line) > 0 /\ line[1] = word
RECURSIVE replace(_, _, _)
replace(line, old, new) ==
  IF line = <<>> THEN <<>>
  ELSE <<IF Head(line) = old THEN new ELSE Head(line)>>
         \o replace(Tail(line), old, new)
Contains(line, word) == \E i \in 1..Len(line) : line[i] = word

\* twitch_irc.py:213-240: what TwitchIRCClient._handle_message does with a
\* line: the PONG it sends, or the handler it runs.  An error raised in the
\* handler (tag decoding, classification, building the event) is caught and
\* logged at l.238; an error raised by the callback (the collector's
\* handler, its database calls) is caught and logged by _safe_callback
\* (l.397-405).  raised tells whether an error leaves _handle_message.
Words == {"PING", "PRIVMSG", "tmi"}
Lines == UNION {[1..n -> Words] : n \in 1..(MaxLine + 1)}
LineFaults == {"none", "handler", "callback"}
Logged(where) == [dir |-> "log", line |-> <<where>>]
Handler(message) ==
  IF Contains(message, "PRIVMSG") THEN "_handle_privmsg"
  ELSE IF Contains(message, "CLEARMSG") THEN "_handle_clearmsg"
  ELSE IF Contains(message, "CLEARCHAT") THEN "_handle_clearchat"
  ELSE "none"
HandleLine_nocatch(message, fault) ==
  IF startswith(message, "PING")
  THEN [out |-> <<Tx(replace(message, "PING", "PONG"))>>, raised |-> FALSE]
  ELSE IF Handler(message) = "none" THEN [out |-> <<>>, raised |-> FALSE]
  ELSE [out |-> <<Ran(Handler(message))>>, raised |-> fault # "none"]
HandleLine(message, fault) ==
  IF startswith(message, "PING")
  THEN [out |-> <<Tx(replace(message, "PING", "PONG"))>>, raised |-> FALSE]
  ELSE IF Handler(message) = "none" THEN [out |-> <<>>, raised |-> FALSE]
  ELSE [out |-> <<Ran(Handler(message))>>
                \o (CASE fault = "handler" -> <<Logged("_handle_message")>>
                      [] fault = "callback" -> <<Logged("_safe_callback")>>
                      [] OTHER -> <<>>),
        raised |-> FALSE]

\* twitch_irc.py:200-211: the listen loop receives one line and handles it;
\* an error that leaves _handle_message ends the loop (l.208-211)
ListenEnded == \E i \in 1..Len(wire) : wire[i].dir = "end"
listen_recv ==
  /\ irc.is_connected
  /\ ~ListenEnded
  /\ Len(wire) < 3 + MaxWire
  /\ \E message \in Lines, fault \in LineFaults :
       LET r == HandleLine(message, fault) IN
       /\ wire' = (wire \o <<Rx(message)>>) \o r.out
       /\ irc' = IF r.raised THEN [irc EXCEPT !.is_connected = FALSE] ELSE irc
  /\ UNCHANGED <<tmVars, coll, socks, connLog, channel_streams, saved,
                 nEvents, db, events, dropped, plat, sched>>

\* twitch_irc.py:200-211: the ways the receive loop of listen() ends.  The
\* "async for" over the websocket ends without an exception when the
\* connection was closed normally (nothing follows the loop, l.201-202);
\* ConnectionClosed is caught, the flag cleared and listen returns
\* (l.204-206); any other error clears the flag and is raised (l.208-211).
ListenEnds == {"exhausted", "ConnectionClosed", "Exception"}
listen_returns ==
  /\ irc.is_connected
  /\ ~ListenEnded
  /\ \E how \in ListenEnds :
       /\ irc' = IF how = "exhausted" THEN irc
                 ELSE [irc EXCEPT !.is_connected = FALSE]
       /\ wire' = Append(wire,
            [dir |-> "end",
             line |-> <<how, IF how = "Exception" THEN "raised"
                             ELSE "returned">>])
  /\ UNCHANGED <<tmVars, coll, socks, connLog, channel_streams, saved,
                 nEvents, db, events, dropped, plat, sched>>

\* twitch_irc.py:172-191: join_channel called on the connected client
Chars == {"#", "a", "A"}
Names == UNION {[1..n -> Chars] : n \in 1..MaxName}
join_channel_call ==
  /\ irc.is_connected
  /\ Len(wire) < 3 + MaxWire
  /\ \E channel \in Names :
       LET st == join_channel([joined |-> irc.joined_channels,
                               wire |-> Append(wire, Called(channel))],
                              channel) IN
       /\ irc' = [irc EXCEPT !.joined_channels = st.joined]
       /\ wire' = st.wire
  /\ UNCHANGED <<tmVars, coll, socks, connLog, channel_streams, saved,
                 nEvents, db, events, dropped, plat, sched>>

\* ------------------------------------------- the client's line handlers
\* A tagged line is a sequence of tokens: "@", the tag string, " ", the
\* command part.  A tag value is a sequence of characters; keys and the
\* words of the command part are single tokens.
None == <<"None">>
NoneInt == -1
TagChars == {" ", ";", "\\", "s", "a"}
DurationChars == {"6", "0", "x"}
Values(chars) == UNION {[1..n -> chars] : n \in 0..MaxTag}
Tag(key, value) == <<key, "=">> \o value
Index(v, x) ==
  IF \E i \in 1..Len(v) : v[i] = x
  THEN CHOOSE i \in 1..Len(v) : v[i] = x /\ \A j \in 1..(i - 1) : v[j] # x
  ELSE 0

\* the escaping of a tag value on the sending side: "\s" for a space, "\:"
\* for ";", "\\" for a backslash, every other character as it is
RECURSIVE Escape(_)
Escape(value) ==
  IF value = <<>> THEN <<>>
  ELSE (CASE value[1] = " " -> <<"\\", "s">>
          [] value[1] = ";" -> <<"\\", ":">>
          [] value[1] = "\\" -> <<"\\", "\\">>
          [] OTHER -> <<value[1]>>) \o Escape(Tail(value))

\* str.replace(old, new): every occurrence of old, found from the left
\* without overlap, is replaced
RECURSIVE str_replace(_, _, _)
str_replace(v, old, new) ==
  IF Len(v) < Len(old) THEN v
  ELSE IF SubSeq(v, 1, Len(old)) = old
       THEN new \o str_replace(SubSeq(v, Len(old) + 1, Len(v)), old, new)
       ELSE <<v[1]>> \o str_replace(Tail(v), old, new)

\* str.split(sep)
RECURSIVE split(_, _)
split(v, sep) ==
  IF Index(v, sep) = 0 THEN <<v>>
  ELSE <<SubSeq(v, 1, Index(v, sep) - 1)>>
         \o split(SubSeq(v, Index(v, sep) + 1, Len(v)), sep)

\* twitch_irc.py:370: the three replacements applied one after the other
unescape(value) ==
  str_replace(str_replace(str_replace(value, <<"\\", "s">>, <<" ">>),
                          <<"\\", ":">>, <<";">>),
              <<"\\", "\\">>, <<"\\">>)

\* twitch_irc.py:354-373: _parse_tags; the tags in the order read, a tag
\* without "=" left out
HasValue(tag) == Index(tag, "=") > 0
_parse_tags(message) ==
  IF Len(message) < 3 \/ message[1] # "@" \/ message[2] = " "
     \/ Index(message, " ") = 0
  THEN <<>>
  ELSE LET tag_string == SubSeq(message, 2, Index(message, " ") - 1)
           kept == SelectSeq(split(tag_string, ";"), HasValue)
       IN [i \in 1..Len(kept) |->
             [key |-> SubSeq(kept[i], 1, Index(kept[i], "=") - 1),
              value |-> unescape(SubSeq(kept[i], Index(kept[i], "=") + 1,
                                        Len(kept[i])))]]

\* dict.get on the parsed tags: a later tag of the same key replaces an
\* earlier one
get(tags, key, default) ==
  IF \E i \in 1..Len(tags) : tags[i].key = <<key>>
  THEN tags[CHOOSE i \in 1..Len(tags) :
              /\ tags[i].key = <<key>>
              /\ \A j \in (i + 1)..Len(tags) : tags[j].key # <<key>>].value
  ELSE default

\* twitch_irc.py:375-383: _parse_int; None for no value, for the empty
\* string and for what int() rejects
DigitOf == [c \in {"0", "6"} |-> IF c = "6" THEN 6 ELSE 0]
RECURSIVE int(_)
int(value) ==
  IF value = <<>> THEN 0
  ELSE int(SubSeq(value, 1, Len(value) - 1)) * 10 + DigitOf[value[Len(value)]]
_parse_int(value) ==
  IF value = None \/ value = <<>> THEN NoneInt
  ELSE IF \A i \in 1..Len(value) : value[i] \in DOMAIN DigitOf
       THEN int(value)
       ELSE NoneInt

\* twitch_irc.py:242-278: a PRIVMSG line whose display-name tag carries the
\* escaped name; the event handed to on_message
privmsg_recv ==
  /\ irc.is_connected
  /\ Len(wire) < 3 + MaxParsed
  /\ \E name \in Values(TagChars) :
       LET message == <<"@">> \o Tag("display-name", Escape(name))
                        \o <<";">> \o Tag("room-id", <<"6">>)
                        \o <<" ", "PRIVMSG", "#ch", ":text">>
           tags == _parse_tags(message)
       IN /\ wire' = Append(wire, Rx(message))
          /\ events' = Append(events,
               [kind |-> "message", message |-> message, sent |-> name,
                broadcaster_user_id |-> get(tags, "room-id", None),
                chatter_user_name |-> get(tags, "display-name", None)])
  /\ UNCHANGED <<tmVars, coll, irc, socks, connLog, channel_streams, saved,
                 nEvents, db, dropped, plat, sched>>

\* twitch_irc.py:280-308: a CLEARMSG line whose login tag carries any value
\* the wire can hold and which has no target-msg-id tag; the event handed to
\* on_delete
WireChars == {"\\", "s", ":", "a"}
WireValues == UNION {[1..n -> WireChars] : n \in 0..(MaxTag + 1)}
clearmsg_recv ==
  /\ irc.is_connected
  /\ Len(wire) < 3 + MaxParsed
  /\ \E raw \in WireValues :
       LET message == <<"@">> \o Tag("login", raw)
                        \o <<";">> \o Tag("room-id", <<"6">>)
                        \o <<" ", "CLEARMSG", "#ch", ":text">>
           tags == _parse_tags(message)
       IN /\ wire' = Append(wire, Rx(message))
          /\ events' = Append(events,
               [kind |-> "delete", message |-> message, raw |-> raw,
                broadcaster_user_id |-> get(tags, "room-id", None),
                target_user_login |-> get(tags, "login", None),
                message_id |-> get(tags, "target-msg-id", None)])
  /\ UNCHANGED <<tmVars, coll, irc, socks, connLog, channel_streams, saved,
                 nEvents, db, dropped, plat, sched>>

\* the ways a CLEARCHAT line carries the ban-duration tag: not at all,
\* without a value, with a value
BanTags ==
  {<<>>, <<"ban-duration", ";">>}
    \cup {Tag("ban-duration", v) \o <<";">> : v \in Values(DurationChars)}

\* twitch_irc.py:316-322: re.search(r'CLEARCHAT #([^ ]+)(?: :(.+))?'): the
\* channel and the text after " :", None when the line has none
clearchat_match_channel(message) ==
  LET rest == SubSeq(message, Index(message, "CLEARCHAT") + 1, Len(message))
  IN [channel |-> rest[1],
      target_user |-> IF Len(rest) >= 3 /\ rest[2] = ":"
                      THEN SubSeq(rest, 3, Len(rest)) ELSE <<rest[1]>>]
clearchat_match(message) ==
  LET rest == SubSeq(message, Index(message, "CLEARCHAT") + 1, Len(message))
  IN [channel |-> rest[1],
      target_user |-> IF Len(rest) >= 3 /\ rest[2] = ":"
                      THEN SubSeq(rest, 3, Len(rest)) ELSE None]

\* twitch_irc.py:310-352: a CLEARCHAT line is received; without a target
\* user the whole chat was cleared and no event is built (l.324-326), else
\* the event is handed to on_ban
Logins == {"eve"}
clearchat_recv ==
  /\ irc.is_connected
  /\ Len(wire) < 3 + MaxParsed
  /\ \E ban \in BanTags,
        trailing \in {<<>>} \cup {<<":", u>> : u \in Logins} :
       LET message == (<<"@">> \o ban) \o Tag("room-id", <<"6">>)
                        \o <<" ", "CLEARCHAT", "#ch">> \o trailing
           tags == _parse_tags(message)
           match == clearchat_match(message)
           ban_duration == _parse_int(get(tags, "ban-duration", None))
       IN /\ wire' = Append(wire, Rx(message))
          /\ events' =
               IF match.target_user = None THEN events
               ELSE Append(events,
                      [kind |-> "ban", message |-> message,
                       broadcaster_user_id |-> get(tags, "room-id", None),
                       broadcaster_user_login |-> match.channel,
                       user_login |-> match.target_user,
                       ban_duration |-> ban_duration,
                       is_permanent |-> ban_duration = NoneInt])
  /\ UNCHANGED <<tmVars, coll, irc, socks, connLog, channel_streams, saved,
                 nEvents, db, dropped, plat, sched>>

\* twitch_irc.py:213-240: _handle_message on a whole line of the server:
\* prefix, command, channel and the trailing text, whose words can be any
\* text a user typed, a command keyword included.  The record keeps the
\* command of the line and the handlers that ran for it.
Commands == {"PRIVMSG", "CLEARMSG", "CLEARCHAT", "USERNOTICE"}
TextWords == {"PRIVMSG", "CLEARMSG", "CLEARCHAT", "hello"}
Trailing == UNION {[1..n -> TextWords] : n \in 0..MaxLine}
dispatch_recv ==
  /\ irc.is_connected
  /\ Len(wire) < 3 + MaxParsed
  /\ \E command \in Commands, text \in Trailing :
       LET message == <<":tmi.twitch.tv", command, "#ch", ":">> \o text IN
       /\ wire' = Append(wire, Rx(message))
       /\ events' = Append(events,
            [kind |-> "dispatch", message |-> message, command |-> command,
             ran |-> HandleLine(message, "none").out])
  /\ UNCHANGED <<tmVars, coll, irc, socks, connLog, channel_streams, saved,
                 nEvents, db, dropped, plat, sched>>

\* ------------------------------------------------------------ scheduler
\* scheduler.py:61-121 fetch_streams_from_channels: the stream per channel,
\* or None for every channel of the batch when a get_streams call raised
fetch_streams_from_channels(r) ==
  IF r = "ok" THEN plat ELSE [c \in Channels |-> 0]

\* scheduler.py:152-194: the transitions counted against the previously
\* known live set, and the new live set
TickStats_count_live(live_users, streams_map) ==
  LET current_live_users == {u \in Channels : streams_map[u] # 0} IN
  [live |-> Cardinality(current_live_users),
   started |-> Cardinality(current_live_users),
   ended |-> Cardinality({u \in live_users : u \notin current_live_users}),
   live_users |-> current_live_users]
TickStats(live_users, streams_map) ==
  LET current_live_users == {u \in Channels : streams_map[u] # 0} IN
  [live |-> Cardinality(current_live_users),
   started |-> Cardinality({u \in current_live_users : u \notin live_users}),
   ended |-> Cardinality({u \in live_users : u \notin current_live_users}),
   live_users |-> current_live_users]

\* scheduler.py:142-206, 223-243: the synchronous poll of one tick.  get_users
\* (l.82) or a database call can raise: the error leaves
\* check_and_save_streams with live_users as it was; it ends run() when the
\* tick is the first one (l.223) and is logged inside the loop (l.240).
\* A tick that returns is followed by the test of self.running (l.225).
Poll ==
  \E r \in {"ok", "fetch_error", "raise"} :
    IF r = "raise"
    THEN sched' = [sched EXCEPT !.pc = IF sched.ticks = 0 THEN "raised"
                                       ELSE "sleep",
                                !.ticks = @ + 1]
    ELSE LET streams_map == fetch_streams_from_channels(r)
             stats == TickStats(sched.live_users, streams_map) IN
         sched' = [sched EXCEPT !.pc = IF sched.running THEN "sleep"
                                       ELSE "stopped",
                                !.ticks = @ + 1,
                                !.prev = sched.live_users,
                                !.live_users = stats.live_users,
                                !.stats = [live |-> stats.live,
                                           started |-> stats.started,
                                           ended |-> stats.ended],
                                !.streams_map = streams_map,
                                !.fetched = (r = "ok")]

\* scheduler.py:123-140: a tick first asks its own TokenManager for a token
\* with the Config values; reading the undeclared attribute raises and the
\* error is logged (l.138), after which the poll runs without an await.
check_and_save_streams ==
  /\ sched.pc = "tick"
  /\ sched.ticks < sched.limit \/ ~sched.running
  /\ IF Config.declares_refresh
     THEN /\ sched' = [sched EXCEPT !.pc = "token"]
          /\ AfterEnter("scheduler",
               StartCall("scheduler", "get_valid_access_token",
                         Config.TWITCH_ACCESS_TOKEN, Config.TWITCH_REFRESH_TOKEN))
     ELSE /\ Poll
          /\ UNCHANGED <<lock, call, posts>>
  /\ UNCHANGED <<Config, env, srv, collVars>>

\* scheduler.py:132-206: the token call ended either way, the poll runs
tick_polled ==
  /\ sched.pc = "token"
  /\ Finished("scheduler")
  /\ Poll
  /\ AfterEnter("scheduler", IdleCall)
  /\ UNCHANGED <<Config, env, srv, collVars>>

\* scheduler.py:225-234: the sleep ends; the loop leaves when running was
\* cleared meanwhile, else it goes to the next tick
sleep_ends ==
  /\ sched.pc = "sleep"
  /\ sched' = [sched EXCEPT !.pc = IF sched.running THEN "tick" ELSE "stopped"]
  /\ UNCHANGED <<tmVars, collVars>>

\* scheduler.py:56-59: SIGINT / SIGTERM.  StreamScheduler.__init__ installs
\* its handler (l.51-52) after CollectorDaemon.__init__ installed its own
\* (daemon.py:50-51), so this is the handler that runs; like the daemon's
\* (daemon.py:55-62) it clears the scheduler's running flag and does nothing
\* to the collector.
_signal_handler ==
  /\ sched.running
  /\ sched.pc \in {"tick", "token", "sleep"}
  /\ sched' = [sched EXCEPT !.running = FALSE]
  /\ UNCHANGED <<tmVars, collVars>>

\* the initial value of the scheduler's fields (scheduler.py:45-48); limit
\* is the number of ticks followed in the run
NewScheduler(pc) ==
  [pc |-> pc, ticks |-> 0, limit |-> MaxTicks,
   running |-> TRUE, live_users |-> {}, prev |-> {},
   fetched |-> FALSE,
   stats |-> [live |-> 0, started |-> 0, ended |-> 0],
   streams_map |-> [c \in Channels |-> -1]]

\* ------------------------------------------------------------- database
\* database.py with models.py.  A table is the sequence of its rows.
\* chat_messages has the message id as primary key (models.py:42);
\* message_deleted_events has an autoincrement key (models.py:79) and no
\* unique constraint on message_id (models.py:87).  A call can find the
\* database unavailable when it queries or when it commits
\* (OperationalError); a commit that breaks the primary key raises
\* IntegrityError.
MsgIds == 1..MaxMsg
Texts == {"x", "y"}
Faults == {"none", "query", "commit"}
NoRow == [id |-> 0]
Returned(rows, result, row) == [rows |-> rows, result |-> result, row |-> row]

\* session.query(...).filter_by(...).first()
First(rows, column, value) ==
  IF \E i \in 1..Len(rows) : rows[i][column] = value
  THEN rows[CHOOSE i \in 1..Len(rows) :
              /\ rows[i][column] = value
              /\ \A j \in 1..(i - 1) : rows[j][column] # value]
  ELSE NoRow

\* database.py:57-69 save_chat_message on the rows of chat_messages
save_chat_message_nocheck(rows, message_data, fault) ==
  IF fault # "none" THEN Returned(rows, "OperationalError", NoRow)
  ELSE IF First(rows, "id", message_data.id) # NoRow
       THEN Returned(rows, "IntegrityError", NoRow)
       ELSE Returned(Append(rows, message_data), "inserted", message_data)
save_chat_message(rows, message_data, fault) ==
  IF fault = "query" THEN Returned(rows, "OperationalError", NoRow)
  ELSE LET existing == First(rows, "id", message_data.id) IN
       IF existing # NoRow THEN Returned(rows, "existing", existing)
       ELSE IF fault = "commit"
            THEN Returned(rows, "OperationalError", NoRow)
            ELSE Returned(Append(rows, message_data), "inserted",
                          message_data)

\* database.py:101-116 save_deleted_event on the rows of
\* message_deleted_events; the new row gets the next key
save_deleted_event_nocheck(rows, event_data, fault) ==
  IF fault # "none" THEN Returned(rows, "OperationalError", NoRow)
  ELSE LET event == [id |-> Len(rows) + 1,
                     message_id |-> event_data.message_id,
                     text |-> event_data.text] IN
       Returned(Append(rows, event), "inserted", event)
save_deleted_event(rows, event_data, fault) ==
  IF fault = "query" THEN Returned(rows, "OperationalError", NoRow)
  ELSE LET existing ==
             First(rows, "message_id", event_data.message_id)
       IN
       IF existing # NoRow THEN Returned(rows, "existing", existing)
       ELSE IF fault = "commit"
            THEN Returned(rows, "OperationalError", NoRow)
            ELSE LET event == [id |-> Len(rows) + 1,
                               message_id |-> event_data.message_id,
                               text |-> event_data.text] IN
                 Returned(Append(rows, event), "inserted", event)

\* the empty database (models.py init_database) and the record of the last
\* call: the method, its argument, the rows before it and what it returned
NewDatabase ==
  [chat_messages |-> <<>>, message_deleted_events |-> <<>>, calls |-> 0,
   last |-> [op |-> "none"]]

save_chat_message_call ==
  /\ db.calls < MaxCalls
  /\ \E id \in MsgIds, text \in Texts, fault \in Faults :
       LET message_data == [id |-> id, text |-> text]
           r == save_chat_message(db.chat_messages, message_data, fault) IN
       db' = [db EXCEPT !.chat_messages = r.rows,
                        !.calls = @ + 1,
                        !.last = [op |-> "save_chat_message",
                                  data |-> message_data,
                                  before |-> db.chat_messages,
                                  result |-> r.result, row |-> r.row]]
  /\ UNCHANGED <<tmVars, coll, irc, socks, connLog, channel_streams, saved,
                 nEvents, events, dropped, wire, plat, sched>>

save_deleted_event_call ==
  /\ db.calls < MaxCalls
  /\ \E id \in MsgIds, text \in Texts, fault \in Faults :
       LET event_data == [message_id |-> id, text |-> text]
           r == save_deleted_event(db.message_deleted_events, event_data,
                                   fault) IN
       db' = [db EXCEPT !.message_deleted_events = r.rows,
                        !.calls = @ + 1,
                        !.last = [op |-> "save_deleted_event",
                                  data |-> event_data,
                                  before |-> db.message_deleted_events,
                                  result |-> r.result, row |-> r.row]]
  /\ UNCHANGED <<tmVars, coll, irc, socks, connLog, channel_streams, saved,
                 nEvents, events, dropped, wire, plat, sched>>

\* ------------------------------------------------- Spec: the daemon's run
\* daemon.py:148-169: one scheduler task and one collector task
Init ==
  /\ \E d \in BOOLEAN :
       Config = [TWITCH_ACCESS_TOKEN |-> 1, TWITCH_REFRESH_TOKEN |-> 1,
                 declares_refresh |-> d]
  /\ env = [access |-> 1, refresh |-> 1]
  /\ \E ok \in {{}, {1}} : srv = [refresh |-> 1, accessOK |-> ok]
  /\ lock = [m \in Managers |-> "free"]
  /\ call = [t \in Tasks |-> IdleCall]
  /\ posts = 0
  /\ coll = [pc |-> "init", attempt |-> 0, access_token |-> 1,
          exc |-> "none", response |-> <<>>,
          startup |-> "pending"]
  /\ irc = NewClient(0)
  /\ socks = {}
  /\ connLog = <<>>
  /\ channel_streams = [c \in Channels |-> 0]
  /\ saved = {}
  /\ nEvents = 0
  /\ dropped = {}
  /\ wire = <<>>
  /\ plat = [c \in Channels |-> 0]
  /\ db = NewDatabase
  /\ events = <<>>
  /\ sched = NewScheduler("tick")

TMStep(t) ==
  /\ \/ validate_response(t)
     \/ lock_acquire(t)
     \/ refresh_response(t)
     \/ set_key_access(t)
     \/ set_key_refresh(t)
  /\ UNCHANGED <<collVars, sched>>

Next ==
  \/ \E t \in {"collector", "scheduler"} : TMStep(t)
  \/ ExpireAccess /\ UNCHANGED <<collVars, sched>>
  \/ collect_from_channels
  \/ startup_validated
  \/ startup_refreshed
  \/ connect
  \/ ws_connected
  \/ precheck_done
  \/ _authenticate
  \/ handshake_recv
  \/ auth_refreshed
  \/ sleep_retry
  \/ sleep_reconnect
  \/ reconnect_token
  \/ join_all_channels
  \/ listen_ends
  \/ check_and_save_streams
  \/ tick_polled
  \/ sleep_ends

Spec == Init /\ [][Next]_vars

\* --------------------------------- SpecListen: the run after the welcome
\* The collector right after a successful first connect (collector.py:128
\* break), then _join_all_channels and the events of the listen loop.
\* The scheduler task runs beside it (daemon.py:157-166) with config.py as
\* it is: its token step raises at once and the poll follows.
Connected(tok) ==
  [NewClient(tok) EXCEPT !.is_connected = TRUE, !.websocket = 1]
Welcomed(tok) == [i \in 1..3 |-> Tx(AuthLines(tok)[i])]

\* the channel whose stream starts and ends while the collector listens
Active == {"alice"}

InitListen ==
  /\ Config = [TWITCH_ACCESS_TOKEN |-> 1, TWITCH_REFRESH_TOKEN |-> 1,
               declares_refresh |-> FALSE]
  /\ env = [access |-> 1, refresh |-> 1]
  /\ srv = [refresh |-> 1, accessOK |-> {1}]
  /\ lock = [m \in Managers |-> "free"]
  /\ call = [t \in Tasks |-> IdleCall]
  /\ posts = 0
  /\ coll = [pc |-> "join", attempt |-> 0, access_token |-> 1,
          exc |-> "none", response |-> WelcomeLine,
          startup |-> "validated"]
  /\ irc = Connected(1)
  /\ socks = {1}
  /\ connLog = <<[tok |-> 1, out |-> "welcome", newTok |-> 0, raised |-> "none"]>>
  /\ channel_streams = [c \in Channels |-> 0]
  /\ saved = {}
  /\ nEvents = 0
  /\ dropped = {}
  /\ wire = Welcomed(1)
  /\ \E p \in [Channels -> StreamIds] :
       /\ \A c \in Channels \ Active : p[c] = 0
       /\ plat = p
  /\ db = NewDatabase
  /\ events = <<>>
  /\ sched = NewScheduler("tick")

NextListen ==
  \/ join_all_channels
  \/ \E ch \in Channels : \/ _handle_message(ch)
                          \/ _handle_delete(ch)
                          \/ _handle_ban(ch)
                          \/ _handle_unban(ch)
  \/ listen_ends
  \/ \E ch \in Active : stream_changes(ch)
  \/ check_and_save_streams
  \/ sleep_ends

SpecListen == InitListen /\ [][NextListen]_vars

\* ------------------------------ SpecShutdown: a signal to the running daemon
\* The daemon with both tasks running; SIGINT / SIGTERM may arrive at any
\* time.  The program's own steps are taken when they can be: the sleeps end
\* and the synchronous calls return.  The end of the receive loop is the
\* server's doing (twitch_irc.py:201 waits for the next line without a
\* timeout), so nothing forces it.
NextShutdown ==
  \/ join_all_channels
  \/ listen_ends
  \/ \E ch \in Active : stream_changes(ch)
  \/ check_and_save_streams
  \/ sleep_ends
  \/ _signal_handler

SpecShutdown ==
  /\ InitListen
  /\ [][NextShutdown]_vars
  /\ WF_vars(join_all_channels)
  /\ WF_vars(check_and_save_streams)
  /\ WF_vars(sleep_ends)

\* ------------------------------ SpecIRC: a connected client driven directly
\* TwitchIRCClient after connect() returned: calls of join_channel with any
\* name and lines arriving in listen(), in any order.
InitIRC ==
  /\ Config = [TWITCH_ACCESS_TOKEN |-> 1, TWITCH_REFRESH_TOKEN |-> 1,
               declares_refresh |-> FALSE]
  /\ env = [access |-> 1, refresh |-> 1]
  /\ srv = [refresh |-> 1, accessOK |-> {1}]
  /\ lock = [m \in Managers |-> "free"]
  /\ call = [t \in Tasks |-> IdleCall]
  /\ posts = 0
  /\ coll = [pc |-> "off", attempt |-> 0, access_token |-> 1,
          exc |-> "none", response |-> <<>>,
          startup |-> "pending"]
  /\ irc = [Connected(1) EXCEPT !.token_manager = FALSE]
  /\ socks = {1}
  /\ connLog = <<[tok |-> 1, out |-> "welcome", newTok |-> 0, raised |-> "none"]>>
  /\ channel_streams = [c \in Channels |-> 0]
  /\ saved = {}
  /\ nEvents = 0
  /\ dropped = {}
  /\ wire = Welcomed(1)
  /\ plat = [c \in Channels |-> 0]
  /\ db = NewDatabase
  /\ events = <<>>
  /\ sched = NewScheduler("off")

NextIRC ==
  \/ listen_recv
  \/ join_channel_call

SpecIRC == InitIRC /\ [][NextIRC]_vars

\* ------------------------------------- SpecPoll: the scheduler's ticks alone
\* StreamScheduler.run (scheduler.py:208-245) while the streams of the
\* channels start and end on the platform.
InitPoll ==
  /\ Config = [TWITCH_ACCESS_TOKEN |-> 1, TWITCH_REFRESH_TOKEN |-> 1,
               declares_refresh |-> FALSE]
  /\ env = [access |-> 1, refresh |-> 1]
  /\ srv = [refresh |-> 1, accessOK |-> {1}]
  /\ lock = [m \in Managers |-> "free"]
  /\ call = [t \in Tasks |-> IdleCall]
  /\ posts = 0
  /\ coll = [pc |-> "off", attempt |-> 0, access_token |-> 1,
          exc |-> "none", response |-> <<>>,
          startup |-> "pending"]
  /\ irc = NewClient(0)
  /\ socks = {}
  /\ connLog = <<>>
  /\ channel_streams = [c \in Channels |-> 0]
  /\ saved = {}
  /\ nEvents = 0
  /\ dropped = {}
  /\ wire = <<>>
  /\ \E p \in [Channels -> StreamIds] : plat = p
  /\ db = NewDatabase
  /\ events = <<>>
  /\ sched = [NewScheduler("tick") EXCEPT !.limit = MaxPolls]

NextPoll ==
  \/ check_and_save_streams
  \/ sleep_ends
  \/ \E ch \in Channels : stream_changes(ch)

SpecPoll == InitPoll /\ [][NextPoll]_vars

\* ------------------------------------------- SpecTM: N concurrent callers
\* asyncio.gather of NCallers calls made with the same token pair, all
\* get_valid_access_token or all refresh_access_token.
\* The refresh token given is the valid one or empty, the case
\* refresh_access_token tests first (token_manager.py:182).
CallArgs ==
  {[op |-> "get_valid_access_token", refresh |-> 1],
   [op |-> "get_valid_access_token", refresh |-> 0],
   [op |-> "refresh_access_token", refresh |-> 1]}
InitTM ==
  /\ Config = [TWITCH_ACCESS_TOKEN |-> 1, TWITCH_REFRESH_TOKEN |-> 1,
               declares_refresh |-> TRUE]
  /\ env = [access |-> 1, refresh |-> 1]
  /\ \E ok \in {{}, {1}} : srv = [refresh |-> 1, accessOK |-> ok]
  /\ lock = [m \in Managers |-> "free"]
  /\ posts = 0
  /\ \E a \in CallArgs :
       call = [t \in Tasks |->
                 IF t \in Callers
                 THEN [IdleCall EXCEPT !.op = a.op, !.access = 1,
                                       !.direct = TRUE,
                                       !.refresh = a.refresh,
                                       !.pc = IF a.op = "refresh_access_token"
                                              THEN "lock" ELSE "validate"]
                 ELSE IdleCall]
  /\ coll = [pc |-> "off", attempt |-> 0, access_token |-> 1,
          exc |-> "none", response |-> <<>>,
          startup |-> "pending"]
  /\ irc = NewClient(0)
  /\ socks = {}
  /\ connLog = <<>>
  /\ channel_streams = [c \in Channels |-> 0]
  /\ saved = {}
  /\ nEvents = 0
  /\ dropped = {}
  /\ wire = <<>>
  /\ plat = [c \in Channels |-> 0]
  /\ db = NewDatabase
  /\ events = <<>>
  /\ sched = NewScheduler("off")

NextTM == \E t \in Callers : TMStep(t)

SpecTM == InitTM /\ [][NextTM]_vars

\* ------------------------------------ SpecConnect: the collector task alone
\* collect_from_channels up to the joins that follow its connect loop
\* (collector.py:84-160), with and without the Config attribute the code
\* reads, while the platform lets access tokens expire.  Every await of
\* the task completes: a step the task can take is taken.
InitConnect ==
  /\ \E d \in BOOLEAN :
       Config = [TWITCH_ACCESS_TOKEN |-> 1, TWITCH_REFRESH_TOKEN |-> 1,
                 declares_refresh |-> d]
  /\ env = [access |-> 1, refresh |-> 1]
  /\ \E ok \in {{}, {1}} : srv = [refresh |-> 1, accessOK |-> ok]
  /\ lock = [m \in Managers |-> "free"]
  /\ call = [t \in Tasks |-> IdleCall]
  /\ posts = 0
  /\ coll = [pc |-> "init", attempt |-> 0, access_token |-> 1,
          exc |-> "none", response |-> <<>>,
          startup |-> "pending"]
  /\ irc = NewClient(0)
  /\ socks = {}
  /\ connLog = <<>>
  /\ channel_streams = [c \in Channels |-> 0]
  /\ saved = {}
  /\ nEvents = 0
  /\ dropped = {}
  /\ wire = <<>>
  /\ plat = [c \in Channels |-> 0]
  /\ db = NewDatabase
  /\ events = <<>>
  /\ sched = NewScheduler("off")

NextConnect ==
  \/ \E t \in {"collector"} : TMStep(t)
  \/ ExpireAccess /\ UNCHANGED <<collVars, sched>>
  \/ collect_from_channels
  \/ startup_validated
  \/ startup_refreshed
  \/ connect
  \/ ws_connected
  \/ precheck_done
  \/ _authenticate
  \/ handshake_recv
  \/ auth_refreshed
  \/ sleep_retry
  \/ sleep_reconnect
  \/ reconnect_token
  \/ join_all_channels

SpecConnect == InitConnect /\ [][NextConnect]_vars /\ WF_vars(NextConnect)

\* ------------------------------------- SpecDB: the DatabaseManager alone
\* Calls of save_chat_message and save_deleted_event in any order, each
\* with its own session as the collector's handlers make them
\* (collector.py:281, 318).
InitDB ==
  /\ Config = [TWITCH_ACCESS_TOKEN |-> 1, TWITCH_REFRESH_TOKEN |-> 1,
               declares_refresh |-> FALSE]
  /\ env = [access |-> 1, refresh |-> 1]
  /\ srv = [refresh |-> 1, accessOK |-> {1}]
  /\ lock = [m \in Managers |-> "free"]
  /\ call = [t \in Tasks |-> IdleCall]
  /\ posts = 0
  /\ coll = [pc |-> "off", attempt |-> 0, access_token |-> 1,
          exc |-> "none", response |-> <<>>,
          startup |-> "pending"]
  /\ irc = NewClient(0)
  /\ socks = {}
  /\ connLog = <<>>
  /\ channel_streams = [c \in Channels |-> 0]
  /\ saved = {}
  /\ nEvents = 0
  /\ dropped = {}
  /\ wire = <<>>
  /\ plat = [c \in Channels |-> 0]
  /\ db = NewDatabase
  /\ events = <<>>
  /\ sched = NewScheduler("off")

NextDB ==
  \/ save_chat_message_call
  \/ save_deleted_event_call

SpecDB == InitDB /\ [][NextDB]_vars

\* --------------------- SpecParse: tagged lines given to a connected client
InitParse == InitIRC

NextParse ==
  \/ privmsg_recv
  \/ clearmsg_recv
  \/ clearchat_recv

SpecParse == InitParse /\ [][NextParse]_vars

\* ------------------- SpecDispatch: whole lines given to a connected client
InitDispatch == InitIRC

NextDispatch == dispatch_recv

SpecDispatch == InitDispatch /\ [][NextDispatch]_vars

\* ------------------- SpecClear: CLEARCHAT lines given to a connected client
InitClear == InitIRC

NextClear == clearchat_recv

SpecClear == InitClear /\ [][NextClear]_vars

\* ------------------- SpecClose: listen() of a connected client to its end
InitClose == InitIRC

NextClose ==
  \/ listen_recv
  \/ listen_returns

SpecClose == InitClose /\ [][NextClose]_vars

\* ================================================================ claims
Ended == coll.pc \in {"done", "raised"}
InFlight == {t \in Tasks : call[t].pc = "post"}
AllCallers(op) == \A t \in Callers : call[t].op = op /\ Finished(t)

\* C1: every event handed to persistence by the message, deletion, ban or
\* unban handler carries a resolved (non-empty) stream id.
C1_SavedHasSession == \A e \in saved : e.sid \in 1..MaxSid
\* all delivered events were handled and a message and an event of another
\* kind were saved
C1_Witness ==
  /\ \E e, f \in saved : e.kind = "message" /\ f.kind # "message"
  /\ nEvents = MaxEvents

\* C2: N concurrent get_valid_access_token calls against an expired access
\* token invoke the refresh endpoint exactly once.
C2_RefreshOnce ==
  (AllCallers("get_valid_access_token") /\ 1 \notin srv.accessOK) => posts = 1

C4_SameResult ==
  AllCallers("refresh_access_token") =>
    \A t, u \in Callers : call[t].pc = call[u].pc /\ call[t].tokens = call[u].tokens

\* C5: a successful refresh has persisted both new tokens when it returns,
\* and the store never holds the new value of one token with the old value
\* of the other.
C5_AtomicPersist ==
  /\ env.access = env.refresh
  /\ \A t \in Tasks :
       (call[t].op = "refresh_access_token" /\ call[t].pc = "ret")
         => (env.access = call[t].tokens /\ env.refresh = call[t].tokens)

TransportKinds == {"ConnectionError", "OSError", "TimeoutError"}
C9_BoundedConnect ==
  /\ Len(connLog) <= max_retries
  /\ coll.pc \in {"join", "listen"} => Last(connLog).out = "welcome"
\* the third attempt succeeded after two failures
C9_Witness ==
  /\ Len(connLog) = max_retries
  /\ coll.pc = "listen"
  /\ connLog[1].out # "welcome"

PassLine(tok) == Tx(<<"PASS", "oauth:" \o ToString(tok)>>)
C11_AuthSequence ==
  /\ Len(wire) >= 1 =>
       wire[1] = Tx(<<"CAP", "REQ", ":twitch.tv/tags", "twitch.tv/commands">>)
  /\ Len(wire) >= 2 => \E tok \in 0..MaxGen : wire[2] = PassLine(tok)
  /\ Len(wire) >= 3 => wire[3] = Tx(<<"NICK", "justinfan12345">>)
  /\ coll.pc \in {"handshake", "join", "listen"} =>
       Len(wire) >= 3 /\ wire[2] = PassLine(irc.access_token)
  /\ coll.pc = "handshake" => Len(wire) = 3
  /\ \A i \in 1..Len(wire) :
       wire[i].line[1] = "JOIN" => i > 3 /\ Last(connLog).out = "welcome"
\* a refreshed token was sent in PASS, the welcome came and JOIN followed
C11_Witness ==
  /\ coll.pc = "listen"
  /\ Len(wire) > 3
  /\ wire[2] = PassLine(2)
  /\ wire[4].line[1] = "JOIN"

\* C12: every PING line received is answered with exactly one PONG line
\* carrying the same payload, and no handler is run for it.
C12_PongEchoesPayload ==
  \A i \in 1..Len(wire) :
    (wire[i].dir = "rx" /\ startswith(wire[i].line, "PING")) =>
      /\ i < Len(wire)
      /\ wire[i + 1] = Tx(<<"PONG">> \o Tail(wire[i].line))
      /\ i + 1 < Len(wire) =>
           /\ wire[i + 2].dir # "run"
           /\ ~(wire[i + 2].dir = "tx" /\ startswith(wire[i + 2].line, "PONG"))

\* C13: exactly one JOIN is sent per distinct normalised channel name; a
\* join of a name whose normalised form is already joined sends nothing
\* and leaves the joined set unchanged.
JoinsSent == {i \in 1..Len(wire) : wire[i].dir = "tx" /\ wire[i].line[1] = "JOIN"}
JoinCalls == {i \in 1..Len(wire) : wire[i].dir = "call"}
C13_JoinIdempotent ==
  /\ \A i, j \in JoinsSent : i # j => wire[i].line # wire[j].line
  /\ {Tail(wire[i].line) : i \in JoinsSent} = irc.joined_channels
  /\ {Normalise(wire[i].line) : i \in JoinCalls} = irc.joined_channels
  /\ \A n \in irc.joined_channels :
       n[1] = "#" /\ \A k \in 1..Len(n) : n[k] # "A"
\* "a" was joined, then "#A": the second call sent nothing
C13_Witness ==
  /\ \E i \in JoinCalls : wire[i].line = <<"a">> /\ i < Len(wire)
  /\ wire[Len(wire)] = Called(<<"#", "A">>)
  /\ Cardinality(JoinsSent) = 1

\* C14: every socket a connect attempt opened is closed when
\* collect_from_channels has returned.
C14_SocketsClosed == Ended => socks = {}

\* C15: after a shutdown signal, eventually the scheduler loop has stopped,
\* the socket is closed, the receive loop has returned and both tasks of
\* the daemon's run() are over.
C15_ShutdownCompletes ==
  (~sched.running) ~>
    (sched.pc \in {"stopped", "raised"} /\ Ended /\ socks = {})

\* C16: an event of any kind is skipped only after one on-demand resolution
\* attempt was made for its channel.
C16_ResolveBeforeDrop == \A d \in dropped : d.lookups = 1

\* C17: a chat event for a channel without a known session is skipped (and
\* not persisted) when the channel is reported not live, and is persisted
\* with session S1 when the channel is reported live with S1.
C17_DropThenAttach ==
  /\ \A d \in dropped : d.kind = "message" => d.lookups = 1 /\ d.rep <= 0
  /\ \A e \in saved :
       (e.kind = "message" /\ e.lookups = 1) => e.rep > 0 /\ e.sid = e.rep
\* the first message came before any tick and was skipped, the second one
\* came after a tick had reported session 1 and was saved with session 1
C17_Witness ==
  /\ \E d \in dropped :
       d.kind = "message" /\ d.ch = "alice" /\ d.seen = -1 /\ d.rep = 0
  /\ \E e \in saved :
       /\ e.kind = "message" /\ e.ch = "alice"
       /\ e.seen = 1 /\ e.lookups = 1 /\ e.sid = 1

\* C18: an event attached from the channel's known session after a poll
\* tick carries the session the tick reported: none after the tick saw the
\* session end, the newer one after the tick reported a newer session.
C18_TickSetsSession ==
  \A e \in saved : (e.seen # -1 /\ e.lookups = 0) => e.sid = e.seen

\* C19: a tick counts as started the channels live now and not in the
\* previous live set, as ended those of the previous live set not live now,
\* and leaves the live set equal to the set reported live.
ReportedLive == {c \in Channels : sched.streams_map[c] > 0}
C19_TickTransitions ==
  /\ sched.live_users = ReportedLive
  /\ sched.stats.started = Cardinality(ReportedLive \ sched.prev)
  /\ sched.stats.ended = Cardinality(sched.prev \ ReportedLive)
\* alice was live at two consecutive ticks and bob started at the second
C19_Witness ==
  /\ sched.prev = {"alice"}
  /\ sched.live_users = {"alice", "bob"}
  /\ sched.stats = [live |-> 2, started |-> 1, ended |-> 0]

\* C20: a validation answer other than 200 and 401 (another status, a
\* network error) never makes get_valid_access_token issue a refresh.
Transient == {"status_other", "neterr"}
C20_TransientNoRefresh ==
  \A t \in Callers :
    (call[t].op = "get_valid_access_token" /\ call[t].outcome \in Transient)
      => /\ call[t].pc \notin {"lock", "post", "set_access", "set_refresh"}
         /\ call[t].tokens = 0

\* C21: a 200 answer without the scope chat:read ends validate_token in a
\* fatal error that is not the Invalid result (None): the caller of
\* get_valid_access_token does not take it for Invalid and starts no refresh.
C21_ScopeErrorIsFatal ==
  \A t \in Callers :
    call[t].outcome = "no_scope"
      => /\ call[t].val # "none"
         /\ call[t].posted = 0
         /\ call[t].rexc = "unset"

\* C23: the decision table of get_valid_access_token.  Valid with at least
\* 600 s left: the current token is returned and no refresh is made.  Invalid
\* (401): a refresh is made; when it succeeds the new access token is
\* returned, when it fails the failure is raised to the caller.
C23_DecisionTable ==
  \A t \in Callers :
    (call[t].op = "get_valid_access_token" /\ Finished(t))
      => /\ call[t].outcome = "ok_long"
              => /\ call[t].pc = "ret"
                 /\ call[t].res = call[t].access
                 /\ call[t].posted = 0
                 /\ call[t].rexc = "unset"
         /\ call[t].outcome = "401"
              => /\ call[t].rexc # "unset"
                 /\ call[t].posted <= 1
                 /\ call[t].rexc = "none"
                      => /\ call[t].pc = "ret"
                         /\ call[t].posted = 1
                         /\ call[t].res = call[t].tokens
                         /\ call[t].res > call[t].access
                 /\ call[t].rexc # "none"
                      => /\ call[t].pc = "raised"
                         /\ call[t].exc = call[t].rexc

\* two concurrent callers found the token invalid: one refreshed and got the
\* new token, the other's refresh was refused and the error reached it
C23_Witness ==
  \E t, u \in Callers :
    /\ call[t].op = "get_valid_access_token" /\ call[t].outcome = "401"
    /\ call[t].pc = "ret" /\ call[t].res = 2
    /\ call[u].outcome = "401" /\ call[u].pc = "raised"
    /\ call[u].exc = "ValueError_invalid"

\* C24: valid with less than 600 s left: one proactive refresh is attempted;
\* whatever makes it fail, the call returns the current access token and
\* raises nothing.
C24_ProactiveBestEffort ==
  \A t \in Callers :
    (call[t].op = "get_valid_access_token" /\ call[t].outcome = "ok_short")
      => /\ call[t].pc # "raised"
         /\ call[t].exc = "none"
         /\ call[t].posted <= 1
         /\ Finished(t)
              => /\ call[t].rexc # "unset"
                 /\ call[t].refresh # 0 => call[t].posted = 1
                 /\ call[t].rexc = "none" => call[t].res = call[t].tokens
                 /\ call[t].rexc # "none" => call[t].res = call[t].access

\* the proactive refresh failed on an empty refresh token and the call
\* returned the current token
C24_Witness ==
  \E t \in Callers :
    /\ call[t].op = "get_valid_access_token" /\ call[t].outcome = "ok_short"
    /\ call[t].pc = "ret" /\ call[t].res = call[t].access
    /\ call[t].rexc = "ValueError_empty"

C39_ReadyOnlyOnWelcome ==
  /\ coll.pc \in {"join", "listen"}
       => (Mentions(coll.response, "001")
             \/ Mentions(coll.response, "Welcome"))
  /\ IsFailureNotice(coll.response) => coll.pc = "auth_refresh"
C39_Witness ==
  /\ coll.pc = "auth_refresh"
  /\ coll.response = FailLine
  /\ Last(connLog).out = "pending"

\* C40: is_connected is true only for a connection whose handshake has
\* completed: whenever the flag is set, the welcome marker was received on
\* the websocket the client holds now.
C40_ConnectedOnlyAfterWelcome ==
  irc.is_connected
    => /\ connLog # <<>>
       /\ irc.websocket = Len(connLog)
       /\ Last(connLog).out = "welcome"

\* C30: the handshake is bounded: a connect attempt that waits for the
\* welcome marker eventually stops waiting (welcome, or the attempt failed),
\* whatever lines the server sends meanwhile.
C30_HandshakeBounded == (coll.pc = "handshake") ~> (coll.pc # "handshake")

\* C25: chat_messages never holds two rows with one message id; a
\* save_chat_message call whose id is already stored leaves the table as it
\* was and returns the stored row, and never raises for the duplicate.
C25_OneRowPerMessage ==
  /\ \A i, j \in 1..Len(db.chat_messages) :
       db.chat_messages[i].id = db.chat_messages[j].id => i = j
  /\ db.last.op = "save_chat_message"
       => /\ db.last.result # "IntegrityError"
          /\ (\E i \in 1..Len(db.last.before) :
                db.last.before[i].id = db.last.data.id)
               => /\ db.chat_messages = db.last.before
                  /\ db.last.result \in {"existing", "OperationalError"}
                  /\ db.last.result = "existing"
                       => /\ db.last.row.id = db.last.data.id
                          /\ \E i \in 1..Len(db.last.before) :
                               db.last.before[i] = db.last.row

\* a message was stored, then saved again with another text: the call
\* returned the stored row
C25_Witness ==
  /\ db.last.op = "save_chat_message"
  /\ db.last.result = "existing"
  /\ db.last.row.text # db.last.data.text
  /\ Len(db.chat_messages) = 1

\* C26: message_deleted_events never holds two rows for one target message
\* id; a second deletion for a stored message id adds nothing and returns
\* the stored row.
C26_OneDeletionPerMessage ==
  /\ \A i, j \in 1..Len(db.message_deleted_events) :
       db.message_deleted_events[i].message_id
         = db.message_deleted_events[j].message_id => i = j
  /\ (/\ db.last.op = "save_deleted_event"
      /\ \E i \in 1..Len(db.last.before) :
           db.last.before[i].message_id = db.last.data.message_id)
       => /\ db.message_deleted_events = db.last.before
          /\ db.last.result \in {"existing", "OperationalError"}
          /\ db.last.result = "existing"
               => /\ db.last.row.message_id = db.last.data.message_id
                  /\ \E i \in 1..Len(db.last.before) :
                       db.last.before[i] = db.last.row

\* two deletions of message 1 and one of message 2: two rows
C26_Witness ==
  /\ db.last.op = "save_deleted_event"
  /\ db.last.result = "existing"
  /\ Len(db.message_deleted_events) = 2
  /\ db.calls = 3

\* C29: an error raised while one received line is processed (in the
\* client's handler or in the callback it calls) does not end the listen
\* loop: the error is logged right after the handler that ran, the client
\* stays connected and what follows is the next received line.
C29_ErrorsDoNotEndListen ==
  /\ irc.is_connected
  /\ \A i \in 1..Len(wire) :
       wire[i].dir = "log"
         => /\ i > 1 /\ wire[i - 1].dir = "run"
            /\ i < Len(wire) => wire[i + 1].dir \in {"rx", "call"}

\* after an error in a handler or in a callback a further line was received
\* and its handler ran without error
C29_Witness ==
  /\ irc.is_connected
  /\ \E i \in 1..Len(wire) :
       /\ wire[i] \in {Logged("_handle_message"), Logged("_safe_callback")}
       /\ i + 2 = Len(wire)
       /\ wire[i + 1].dir = "rx"
       /\ wire[i + 2].dir = "run"

\* C27: a CLEARCHAT line for one user gives a permanent ban exactly when
\* it carries no ban-duration tag; with the tag, whatever its value, the
\* event is a timeout.
C27_PermanentIffNoTag ==
  \A i \in 1..Len(events) :
    events[i].kind = "ban"
      => (events[i].is_permanent
            <=> ~Contains(events[i].message, "ban-duration"))

\* C28: a tag value escaped by the sender and decoded by _parse_tags is the
\* value the sender escaped.
C28_DecodeInvertsEscape ==
  \A i \in 1..Len(events) :
    events[i].kind = "message"
      => events[i].chatter_user_name = events[i].sent

C32_DispatchByCommand ==
  \A i \in 1..Len(events) :
    events[i].kind = "dispatch"
      => /\ Len(events[i].ran) <= 1
         /\ events[i].command = "CLEARMSG"
              => events[i].ran = <<Ran("_handle_clearmsg")>>
         /\ events[i].command = "CLEARCHAT"
              => events[i].ran = <<Ran("_handle_clearchat")>>

\* the decoding the escape rules describe: one pass from the left in which
\* "\s" gives a space, "\:" gives ";", "\\" gives one backslash and every
\* other character is copied
RECURSIVE DecodeLeftToRight(_)
DecodeLeftToRight(v) ==
  IF v = <<>> THEN <<>>
  ELSE IF Len(v) >= 2 /\ v[1] = "\\" /\ v[2] \in {"s", ":", "\\"}
       THEN <<CASE v[2] = "s" -> " " [] v[2] = ":" -> ";" [] OTHER -> "\\">>
              \o DecodeLeftToRight(SubSeq(v, 3, Len(v)))
       ELSE <<v[1]>> \o DecodeLeftToRight(Tail(v))

\* C33: the value _parse_tags gives for a tag is the left-to-right decoding
\* of the value on the wire, and a key the line does not hold is not in
\* the mapping.
C33_DecodeIsOnePass ==
  \A i \in 1..Len(events) :
    events[i].kind = "delete"
      => /\ events[i].target_user_login = DecodeLeftToRight(events[i].raw)
         /\ events[i].message_id = None

\* C34: an error raised by a poll tick never ends the scheduler's loop,
\* the first tick made by run() included: run() is never left by an error.
C34_TickErrorsContained == sched.pc # "raised"

\* C35: a channel of the known live set is counted as ended only in a tick
\* whose polling succeeded and reported the channel not live; a failed
\* polling call produces no end transition.
C35_EndOnlyWhenReported ==
  /\ sched.stats.ended = Cardinality(sched.prev \ sched.live_users)
  /\ \A u \in sched.prev \ sched.live_users :
       sched.fetched /\ sched.streams_map[u] = 0

\* C36: when the connection is closed while listen() receives, listen()
\* returns without raising and is_connected is false; any other error of
\* the receive loop is raised and also leaves is_connected false.
C36_ListenEndClearsFlag ==
  \A i \in 1..Len(wire) :
    wire[i].dir = "end"
      => /\ ~irc.is_connected
         /\ wire[i].line[2] =
              (IF wire[i].line[1] = "Exception" THEN "raised" ELSE "returned")

\* C37: collect_from_channels makes a connect attempt and opens a socket
\* only after the start-up check ended well (the token validated, or a
\* refresh gave a new one); a start-up check that failed is raised to the
\* caller before any connect attempt.
C37_NoConnectBeforeStartupCheck ==
  /\ (connLog # <<>> \/ socks # {} \/ irc.websocket # 0)
       => coll.startup \in {"validated", "refreshed"}
  /\ coll.startup = "failed"
       => (coll.pc = "raised" /\ coll.exc # "none" /\ connLog = <<>>)
  /\ coll.startup = "pending"
       => coll.pc \in {"init", "startup", "startup_refresh"}

\* a socket was opened after the start-up refresh replaced an invalid token
C37_Witness ==
  /\ coll.startup = "refreshed"
  /\ socks # {}
  /\ coll.access_token # Config.TWITCH_ACCESS_TOKEN

\* the received CLEARCHAT lines that name a user after the channel
NamesUser(rec) ==
  /\ rec.dir = "rx"
  /\ Contains(rec.line, "CLEARCHAT")
  /\ rec.line[Len(rec.line) - 1] = ":"
SingleUserClears == SelectSeq(wire, NamesUser)

\* C38: a CLEARCHAT line without a target user gives no ban event and calls
\* no handler; a line that names a user gives exactly one ban event, for
\* that user.
C38_BanEventPerSingleUserClear ==
  /\ Len(events) = Len(SingleUserClears)
  /\ \A i \in 1..Len(events) :
       /\ events[i].kind = "ban"
       /\ events[i].message = SingleUserClears[i].line
       /\ events[i].user_login = <<events[i].message[Len(events[i].message)]>>

\* a channel-wide clear was received and gave no event, the single-user
\* clear received after it gave the one event there is
C38_Witness ==
  /\ Len(events) = 1
  /\ Len(wire) = 5
  /\ Contains(wire[4].line, "CLEARCHAT") /\ ~NamesUser(wire[4])
  /\ NamesUser(wire[5])
  /\ events[1].user_login = <<"eve">>

====
